---- MODULE Spec2Model ----
(***************************************************************************)
(* A model of buildigvm: the OVMF metadata table walk (ovmf_firmware.rs),  *)
(* the firmware page directives, the VMSA constructor (vmsa.rs) and the    *)
(* directive assembly and reorder pass (igvm_builder.rs).                  *)
(*                                                                         *)
(* Numbers.  TLC integers are 32-bit signed, so a u32 or u64 of the        *)
(* program is a little-endian tuple of 16-bit limbs (u32: 2 limbs, u64: 4  *)
(* limbs).  Buffer offsets (usize) are plain integers: every image of the  *)
(* model is far shorter than 2^31 bytes.  A usize subtraction that         *)
(* underflows panics when the build has overflow checks (the debug         *)
(* profile) and wraps otherwise (the release profile); a wrapped offset is *)
(* kept as the negative integer v, standing for 2^64 + v.                  *)
(***************************************************************************)
EXTENDS Integers, Sequences, FiniteSets, TLC

VARIABLES
    overflow_checks,  \* the build: TRUE = arithmetic overflow panics, FALSE = it wraps
    platform,         \* CmdOptions::platform
    cpucount,         \* CmdOptions::cpucount (u16)
    data,             \* the firmware image, a sequence of bytes
    pc,               \* position of the run
    result,           \* "running", "Ok", "panic" or the message of the Err returned
    current_offset,   \* parse_ovmf: the cursor of the table walk
    ovmf_table,       \* parse_ovmf: the footer's TableInfo
    table,            \* parse_inner_table: the TableInfo of the inner table being parsed
    rt,               \* the last read_table call: cursor, outcome, indices read
    meta,             \* parse_sev_metadata: offset, num_desc and loop index i
    fw_info,          \* OvmfFwInfo
    fw_directives,    \* OvmfFirmware::directives
    directives,       \* IgvmBuilder::directives
    pre_reorder       \* IgvmBuilder::directives as they were when the reorder pass began

vars == <<overflow_checks, platform, cpucount, data, pc, result, current_offset,
          ovmf_table, table, rt, meta, fw_info, fw_directives, directives,
          pre_reorder>>

----------------------------------------------------------------------------
(* Limb arithmetic for u32 / u64 values.                                   *)

LIMB == 256 * 256

Zero32 == <<0, 0>>

\* n (0 <= n < 2^31) as a value of `limbs` limbs.
ToLimbs(n, limbs) ==
    [k \in 1..limbs |-> IF k = 1 THEN n % LIMB
                        ELSE IF k = 2 THEN n \div LIMB
                        ELSE 0]

\* `u32 as u64`, `u32.into()`, `usize as u32`: zero-extend or truncate.
Cast(v, limbs) == [k \in 1..limbs |-> IF k <= Len(v) THEN v[k] ELSE 0]

RECURSIVE Carry(_, _, _)
\* The carry out of limb k when adding a and b (same length).
Carry(a, b, k) ==
    IF k = 0 THEN 0 ELSE (a[k] + b[k] + Carry(a, b, k - 1)) \div LIMB

\* a + b on Len(a) limbs: the wrapped sum and whether it overflowed.
AddLimbs(a, b) ==
    [val |-> [k \in 1..Len(a) |-> (a[k] + b[k] + Carry(a, b, k - 1)) % LIMB],
     overflow |-> Carry(a, b, Len(a)) = 1]

RECURSIVE Borrow(_, _, _)
Borrow(a, b, k) ==
    IF k = 0 THEN 0 ELSE IF a[k] - b[k] - Borrow(a, b, k - 1) < 0 THEN 1 ELSE 0

\* a - b on Len(a) limbs: the wrapped difference and whether it underflowed.
SubLimbs(a, b) ==
    [val |-> [k \in 1..Len(a) |-> (a[k] - b[k] - Borrow(a, b, k - 1)) % LIMB],
     overflow |-> Borrow(a, b, Len(a)) = 1]

RECURSIVE LessLimbs(_, _, _)
\* a < b, comparing limbs k down to 1.
LessLimbs(a, b, k) ==
    IF k = 0 THEN FALSE
    ELSE IF a[k] # b[k] THEN a[k] < b[k]
    ELSE LessLimbs(a, b, k - 1)

\* Whether a u32 fits the model's integers, and its value then.
Small(v) == v[2] < 32768
ToInt(v) == v[1] + LIMB * v[2]

----------------------------------------------------------------------------
(* Results of fallible functions: Ok(v), Err(msg), or a panic (abort).     *)

Ok(v) == [kind |-> "ok", msg |-> "Ok", val |-> v]
Err(m) == [kind |-> "err", msg |-> m, val |-> <<>>]
Panic == [kind |-> "panic", msg |-> "panic", val |-> <<>>]

ERR_TABLE == "Invalid metadata table in OVMF firmware"
ERR_REGIONS == "OVMF metadata defines too many memory regions"
ERR_FOOTER == "OVMF table footer not found"
ERR_SMALL == "OVMF firmware file is too small"
ERR_DESC == "Cannot parse OVMF metadata descriptor - invalid buffer size"
ERR_META == "Cannot parse OVMF metadata - invalid buffer size"
ERR_U32 == "Invalid buffer passed to read_u32"
ERR_U16 == "Invalid buffer passed to read_u16"

----------------------------------------------------------------------------
(* Constants of ovmf_firmware.rs.                                          *)

\* A Uuid is its 16 bytes in textual order; to_bytes_le swaps the first
\* three fields to little-endian.
OVMF_TABLE_FOOTER_GUID ==
    <<150, 181, 130, 222, 31, 178, 69, 247, 186, 234, 163, 102, 197, 90, 8, 45>>
OVMF_SEV_METADATA_GUID ==
    <<220, 136, 101, 102, 152, 74, 71, 152, 167, 94, 85, 133, 167, 191, 103, 204>>
SEV_INFO_BLOCK_GUID ==
    <<0, 247, 113, 222, 26, 126, 79, 203, 137, 14, 104, 199, 126, 47, 180, 78>>

to_bytes_le(u) ==
    <<u[4], u[3], u[2], u[1], u[6], u[5], u[8], u[7],
      u[9], u[10], u[11], u[12], u[13], u[14], u[15], u[16]>>

SEV_META_DESC_TYPE_MEM == 1
SEV_META_DESC_TYPE_SECRETS == 2
SEV_META_DESC_TYPE_CPUID == 3
SEV_META_DESC_TYPE_CAA == 4
FOOTER_OFFSET == 32
UUID_SIZE == 16
PREVALIDATED_LEN == 8
PAGE_SIZE_4K == 4096
SEV_METADATA_SIZE == 16
METADATA_DESC_SIZE == 12

----------------------------------------------------------------------------
(* Slices.  data[lo..hi] of a Rust slice panics unless lo <= hi <= len; a  *)
(* wrapped (negative) lo or hi stands for a value near 2^64 and panics.    *)
(* Offsets are 0-based as in the source; sequences are 1-based.            *)

SliceOk(d, lo, hi) == 0 <= lo /\ lo <= hi /\ hi <= Len(d)
Slice(d, lo, hi) == SubSeq(d, lo + 1, hi)

read_u32(d) ==
    IF Len(d) < 4 THEN Err(ERR_U32)
    ELSE Ok(<<d[1] + 256 * d[2], d[3] + 256 * d[4]>>)

read_u16(d) ==
    IF Len(d) < 2 THEN Err(ERR_U16)
    ELSE Ok(d[1] + 256 * d[2])

\* usize subtraction `a - b` where b is a u32 widened to usize.  A wrapped
\* result is negative (it stands for 2^64 + val).
UsizeSub(a, b) ==
    IF Small(b) /\ ToInt(b) <= a
    THEN [val |-> a - ToInt(b), overflow |-> FALSE]
    ELSE [val |-> IF Small(b) THEN a - ToInt(b) ELSE 0 - 2147483000, overflow |-> TRUE]

----------------------------------------------------------------------------
(* read_table: the table whose 16-byte GUID ends at current_offset, with   *)
(* its 2-byte length just before the GUID.  `reads` are the indices of the *)
(* bytes the call reads.                                                   *)

TableInfo(uuid, data_offset, data_length) ==
    [uuid |-> uuid, data_offset |-> data_offset, data_length |-> data_length]

NoTable == TableInfo(<<>>, 0, 0)

table_data_length_no_size_field(table_size) ==
    \* the 2 bytes of the length field are not subtracted
    (table_size - UUID_SIZE) % 65536

\* (table_size - uuid_size - 2) as u16
table_data_length(table_size) == (table_size - UUID_SIZE - 2) % 65536

read_table_check_16(cur) ==
    \* the cursor check forgets the 2-byte length field
    cur < UUID_SIZE

read_table_cursor_too_low(cur) ==
    cur < UUID_SIZE + 2

read_table(cur, d) ==
    IF read_table_cursor_too_low(cur)
    THEN [out |-> Err(ERR_TABLE), reads |-> {}]
    ELSE IF ~SliceOk(d, cur - UUID_SIZE, cur)
    THEN [out |-> Panic, reads |-> {}]
    ELSE
      LET entry_uuid == Slice(d, cur - UUID_SIZE, cur)
          table_size_offset == cur - UUID_SIZE - 2
          uuid_reads == (cur - UUID_SIZE)..(cur - 1)
      IN
      IF ~SliceOk(d, table_size_offset, table_size_offset + 2)
      THEN [out |-> Panic, reads |-> uuid_reads]
      ELSE
        LET size_res == read_u16(Slice(d, table_size_offset, table_size_offset + 2))
            reads == uuid_reads \cup (table_size_offset..(table_size_offset + 1))
        IN
        IF size_res.kind # "ok" THEN [out |-> size_res, reads |-> reads]
        ELSE
          LET table_size == size_res.val IN
          IF table_size > cur
          THEN [out |-> Err(ERR_TABLE), reads |-> reads]
          ELSE IF table_size - UUID_SIZE - 2 < 0 /\ overflow_checks
          THEN [out |-> Panic, reads |-> reads]
          ELSE [out |-> Ok(TableInfo(entry_uuid,
                                     cur - table_size,
                                     table_data_length(table_size))),
                reads |-> reads]

\* The record kept of a read_table call.
RtRecord(cur, r) ==
    [called |-> TRUE, cursor |-> cur, kind |-> r.out.kind,
     msg |-> r.out.msg, reads |-> r.reads,
     info |-> IF r.out.kind = "ok" THEN r.out.val ELSE NoTable]

NoRt == [called |-> FALSE, cursor |-> 0, kind |-> "none", msg |-> "",
         reads |-> {}, info |-> NoTable]

----------------------------------------------------------------------------
(* The metadata interpreters.                                              *)

OvmfFwMem(base, size) == [base |-> base, size |-> size]

\* OvmfFwInfo::default()
OvmfFwInfo_default ==
    [start |-> Zero32, size |-> Zero32, secrets_page |-> Zero32,
     caa_page |-> Zero32, cpuid_page |-> Zero32, reset_addr |-> Zero32,
     prevalidated_count |-> 0,
     prevalidated |-> [k \in 1..PREVALIDATED_LEN |-> OvmfFwMem(Zero32, Zero32)]]

\* impl TryFrom<&[u8]> for MetadataDesc
MetadataDesc_try_from(value) ==
    IF Len(value) < METADATA_DESC_SIZE THEN Err(ERR_DESC)
    ELSE Ok([base |-> read_u32(Slice(value, 0, 4)).val,
             len |-> read_u32(Slice(value, 4, 8)).val,
             metadata_type |-> read_u32(Slice(value, 8, 12)).val])

\* impl TryFrom<&[u8]> for SevMetadata
SevMetadata_try_from(value) ==
    IF Len(value) < SEV_METADATA_SIZE THEN Err(ERR_META)
    ELSE Ok([sig |-> read_u32(Slice(value, 0, 4)).val,
             len |-> read_u32(Slice(value, 4, 8)).val,
             version |-> read_u32(Slice(value, 8, 12)).val,
             num_desc |-> read_u32(Slice(value, 12, 16)).val])

\* parse_sev_metadata up to its loop: the pointer and the 16-byte header.
parse_sev_metadata_header(d, table_data_offset) ==
    IF ~SliceOk(d, table_data_offset, table_data_offset + 4) THEN Panic
    ELSE
      LET ptr == read_u32(Slice(d, table_data_offset, table_data_offset + 4))
          sub == UsizeSub(Len(d), ptr.val)
          offset == sub.val
      IN
      IF ptr.kind # "ok" THEN ptr
      ELSE IF sub.overflow /\ overflow_checks THEN Panic
      ELSE IF ~SliceOk(d, offset, offset + SEV_METADATA_SIZE) THEN Panic
      ELSE
        LET metadata == SevMetadata_try_from(Slice(d, offset, offset + SEV_METADATA_SIZE))
        IN IF metadata.kind # "ok" THEN metadata
           ELSE Ok([offset |-> offset, num_desc |-> metadata.val.num_desc, i |-> 0])

NoMeta == [offset |-> 0, num_desc |-> Zero32, i |-> 0]

regions_full_off_by_one(fw) ==
    \* the capacity check lets a 9th region through
    fw.prevalidated_count > PREVALIDATED_LEN

regions_full(fw) ==
    fw.prevalidated_count = PREVALIDATED_LEN

\* One iteration of parse_sev_metadata's loop, on descriptor m.i.
parse_sev_metadata_desc(d, m, fw) ==
    LET desc_offset == m.offset + SEV_METADATA_SIZE + m.i * METADATA_DESC_SIZE IN
    IF ~SliceOk(d, desc_offset, desc_offset + METADATA_DESC_SIZE) THEN Panic
    ELSE
      LET res == MetadataDesc_try_from(Slice(d, desc_offset, desc_offset + METADATA_DESC_SIZE))
          metadata_desc == res.val
          ty == metadata_desc.metadata_type
      IN
      IF res.kind # "ok" THEN res
      ELSE IF ty = ToLimbs(SEV_META_DESC_TYPE_MEM, 2) THEN
        IF regions_full(fw) THEN Err(ERR_REGIONS)
        ELSE IF fw.prevalidated_count + 1 > PREVALIDATED_LEN THEN Panic
        ELSE Ok([fw EXCEPT
                   !.prevalidated[fw.prevalidated_count + 1] =
                       OvmfFwMem(metadata_desc.base, metadata_desc.len),
                   !.prevalidated_count = fw.prevalidated_count + 1])
      ELSE IF ty = ToLimbs(SEV_META_DESC_TYPE_SECRETS, 2)
      THEN Ok([fw EXCEPT !.secrets_page = metadata_desc.base])
      ELSE IF ty = ToLimbs(SEV_META_DESC_TYPE_CPUID, 2)
      THEN Ok([fw EXCEPT !.cpuid_page = metadata_desc.base])
      ELSE IF ty = ToLimbs(SEV_META_DESC_TYPE_CAA, 2)
      THEN Ok([fw EXCEPT !.caa_page = metadata_desc.base])
      ELSE Ok(fw)

\* parse_sev_info_block on the payload slice.
parse_sev_info_block(payload, fw) ==
    IF ~SliceOk(payload, 0, 4) THEN Panic
    ELSE LET r == read_u32(Slice(payload, 0, 4)) IN
         IF r.kind # "ok" THEN r
         ELSE Ok([fw EXCEPT !.reset_addr = r.val])

----------------------------------------------------------------------------
(* The table walk, as steps of one run.                                    *)
(*   pc = "parse_ovmf": before the footer is read                          *)
(*   pc = "walk":       at the head of parse_ovmf's while loop             *)
(*   pc = "desc":       at the head of parse_sev_metadata's for loop       *)
(*   pc = "parsed":     OvmfFirmware::parse returned Ok                    *)
(*   pc = "built":      build_directives returned, before the reorder      *)
(*   pc = "done":       the directive list is final                        *)
(*   pc = "failed":     an Err was returned to main, or the run panicked   *)

\* The run ends with outcome `out` (an Err or a panic).
Fail(out) ==
    /\ pc' = "failed"
    /\ result' = out.msg

\* parse_ovmf up to its loop: the footer table.
parse_ovmf ==
    /\ pc = "parse_ovmf"
    /\ UNCHANGED <<overflow_checks, platform, cpucount, data, table, meta,
                   fw_info, fw_directives, directives, pre_reorder>>
    /\ IF Len(data) < FOOTER_OFFSET
       THEN /\ Fail(Err(ERR_SMALL))
            /\ UNCHANGED <<current_offset, ovmf_table, rt>>
       ELSE
         LET r == read_table(Len(data) - FOOTER_OFFSET, data) IN
         /\ rt' = RtRecord(Len(data) - FOOTER_OFFSET, r)
         /\ IF r.out.kind # "ok"
            THEN /\ Fail(r.out)
                 /\ current_offset' = Len(data) - FOOTER_OFFSET
                 /\ UNCHANGED ovmf_table
            ELSE IF r.out.val.uuid # to_bytes_le(OVMF_TABLE_FOOTER_GUID)
            THEN /\ Fail(Err(ERR_FOOTER))
                 /\ current_offset' = Len(data) - FOOTER_OFFSET
                 /\ UNCHANGED ovmf_table
            ELSE /\ ovmf_table' = r.out.val
                 /\ current_offset' = r.out.val.data_offset + r.out.val.data_length
                 /\ pc' = "walk"
                 /\ UNCHANGED result

\* One iteration of parse_ovmf's loop: parse_inner_table, up to the
\* descriptor loop when the table is the SEV metadata pointer.
parse_inner_table ==
    /\ pc = "walk"
    /\ current_offset > ovmf_table.data_offset
    /\ UNCHANGED <<overflow_checks, platform, cpucount, data, ovmf_table,
                   fw_directives, directives, pre_reorder>>
    /\ LET r == read_table(current_offset, data)
           t == r.out.val
       IN
       /\ rt' = RtRecord(current_offset, r)
       /\ IF r.out.kind # "ok"
          THEN /\ Fail(r.out)
               /\ UNCHANGED <<current_offset, table, meta, fw_info>>
          ELSE
            /\ table' = t
            /\ IF t.uuid = to_bytes_le(OVMF_SEV_METADATA_GUID)
               THEN LET h == parse_sev_metadata_header(data, t.data_offset) IN
                    IF h.kind # "ok"
                    THEN /\ Fail(h)
                         /\ UNCHANGED <<current_offset, meta, fw_info>>
                    ELSE /\ meta' = h.val
                         /\ pc' = "desc"
                         /\ UNCHANGED <<current_offset, result, fw_info>>
               ELSE IF t.uuid = to_bytes_le(SEV_INFO_BLOCK_GUID)
               THEN IF ~SliceOk(data, t.data_offset, t.data_offset + t.data_length)
                    THEN /\ Fail(Panic)
                         /\ UNCHANGED <<current_offset, meta, fw_info>>
                    ELSE LET b == parse_sev_info_block(
                                     Slice(data, t.data_offset,
                                           t.data_offset + t.data_length), fw_info)
                         IN IF b.kind # "ok"
                            THEN /\ Fail(b)
                                 /\ UNCHANGED <<current_offset, meta, fw_info>>
                            ELSE /\ fw_info' = b.val
                                 /\ current_offset' = t.data_offset
                                 /\ UNCHANGED <<pc, result, meta>>
               ELSE /\ current_offset' = t.data_offset
                    /\ UNCHANGED <<pc, result, meta, fw_info>>

\* One iteration of parse_sev_metadata's loop; when the loop is over,
\* parse_inner_table returns the table's data_offset as the new cursor.
parse_sev_metadata ==
    /\ pc = "desc"
    /\ UNCHANGED <<overflow_checks, platform, cpucount, data, ovmf_table, table,
                   rt, fw_directives, directives, pre_reorder>>
    /\ IF LessLimbs(ToLimbs(meta.i, 2), meta.num_desc, 2)
       THEN LET r == parse_sev_metadata_desc(data, meta, fw_info) IN
            IF r.kind # "ok"
            THEN /\ Fail(r)
                 /\ UNCHANGED <<current_offset, meta, fw_info>>
            ELSE /\ fw_info' = r.val
                 /\ meta' = [meta EXCEPT !.i = meta.i + 1]
                 /\ UNCHANGED <<pc, result, current_offset>>
       ELSE /\ current_offset' = table.data_offset
            /\ pc' = "walk"
            /\ UNCHANGED <<result, meta, fw_info>>

----------------------------------------------------------------------------
(* OvmfFirmware::parse after parse_ovmf: placement and page directives.    *)

COMPATIBILITY_MASK == 1

Min(a, b) == IF a < b THEN a ELSE b

PageData(gpa, compatibility_mask, data_type, bytes) ==
    [kind |-> "PageData", gpa |-> gpa, compatibility_mask |-> compatibility_mask,
     flags |-> 0, data_type |-> data_type, data |-> bytes]

firmware_start_no_plus_one(len) ==
    \* the "+ 1" of the placement is forgotten
    Cast(SubLimbs(<<65535, 65535, 0, 0>>, ToLimbs(len, 4)).val, 2)

\* (0xffffffff - len + 1) as u32
firmware_start(len) ==
    Cast(AddLimbs(SubLimbs(<<65535, 65535, 0, 0>>, ToLimbs(len, 4)).val,
                  ToLimbs(1, 4)).val, 2)

RECURSIVE firmware_pages(_, _, _)
\* for page_data in data.chunks(PAGE_SIZE_4K): `rest` is what is left of
\* the image, gpa the address of its first byte.
firmware_pages(rest, gpa, compatibility_mask) ==
    IF Len(rest) = 0 THEN <<>>
    ELSE LET n == Min(PAGE_SIZE_4K, Len(rest)) IN
         <<PageData(gpa, compatibility_mask, "NORMAL", SubSeq(rest, 1, n))>>
         \o firmware_pages(SubSeq(rest, n + 1, Len(rest)),
                           AddLimbs(gpa, ToLimbs(PAGE_SIZE_4K, 4)).val,
                           compatibility_mask)

RECURSIVE region_pages(_, _, _)
\* for offset in (0..pv_mem.size).step_by(PAGE_SIZE_4K), from `offset` on.
\* pv_mem.base + offset is a u32 addition, widened after it.
region_pages(pv_mem, offset, compatibility_mask) ==
    IF ~LessLimbs(offset, pv_mem.size, 2) THEN [dirs |-> <<>>, panic |-> FALSE]
    ELSE
      LET sum == AddLimbs(pv_mem.base, offset)
          next == AddLimbs(offset, ToLimbs(PAGE_SIZE_4K, 2))
      IN
      IF sum.overflow /\ overflow_checks THEN [dirs |-> <<>>, panic |-> TRUE]
      ELSE
        LET rest == IF next.overflow THEN [dirs |-> <<>>, panic |-> FALSE]
                    ELSE region_pages(pv_mem, next.val, compatibility_mask)
        IN [dirs |-> <<PageData(Cast(sum.val, 4), compatibility_mask, "NORMAL", <<>>)>>
                     \o rest.dirs,
            panic |-> rest.panic]

RECURSIVE prevalidated_pages(_, _, _)
\* for i in 0..fw_info.prevalidated_count, from region i (0-based) on.
prevalidated_pages(fw, i, compatibility_mask) ==
    IF i >= fw.prevalidated_count THEN [dirs |-> <<>>, panic |-> FALSE]
    ELSE
      LET this == region_pages(fw.prevalidated[i + 1], Zero32, compatibility_mask) IN
      IF this.panic THEN this
      ELSE LET rest == prevalidated_pages(fw, i + 1, compatibility_mask) IN
           [dirs |-> this.dirs \o rest.dirs, panic |-> rest.panic]

snp_only(p) == p = "SevSnp"

\* The directives emitted after the firmware pages.
metadata_pages(fw, compatibility_mask, p) ==
    IF snp_only(p)
    THEN LET pv == prevalidated_pages(fw, 0, compatibility_mask) IN
         [dirs |-> <<PageData(Cast(fw.secrets_page, 4), compatibility_mask, "SECRETS", <<>>),
                     PageData(Cast(fw.caa_page, 4), compatibility_mask, "NORMAL", <<>>),
                     PageData(Cast(fw.cpuid_page, 4), compatibility_mask, "CPUID_DATA", <<>>)>>
                   \o pv.dirs,
          panic |-> pv.panic]
    ELSE [dirs |-> <<>>, panic |-> FALSE]

\* parse_ovmf's loop is over (Ok); OvmfFirmware::parse places the firmware
\* and builds its directives.
OvmfFirmware_parse ==
    /\ pc = "walk"
    /\ ~(current_offset > ovmf_table.data_offset)
    /\ UNCHANGED <<overflow_checks, platform, cpucount, data, current_offset,
                   ovmf_table, table, rt, meta, directives, pre_reorder>>
    /\ LET len == Len(data)
           fw == [fw_info EXCEPT !.start = firmware_start(len),
                                 !.size = ToLimbs(len, 2)]
           pages == firmware_pages(data, Cast(fw.start, 4), COMPATIBILITY_MASK)
           md == metadata_pages(fw, COMPATIBILITY_MASK, platform)
       IN
       /\ fw_info' = fw
       /\ IF md.panic
          THEN /\ Fail(Panic)
               /\ UNCHANGED fw_directives
          ELSE /\ fw_directives' = pages \o md.dirs
               /\ pc' = "parsed"
               /\ UNCHANGED result

----------------------------------------------------------------------------
(* vmsa.rs: the initial processor state.  64-bit registers are 4 limbs.    *)

RECURSIVE BitAnd(_, _)
BitAnd(a, b) ==
    IF a = 0 \/ b = 0 THEN 0
    ELSE (a % 2) * (b % 2) + 2 * BitAnd(a \div 2, b \div 2)

AndLimbs(a, b) == [k \in 1..Len(a) |-> BitAnd(a[k], b[k])]

Zero64 == <<0, 0, 0, 0>>

Segment(selector, base, limit, attrib) ==
    [selector |-> selector, base |-> base, limit |-> limit, attrib |-> attrib]

\* SevVmsa::new_box_zeroed(): every field zero.
SevVmsa_zeroed ==
    [cs |-> Segment(0, Zero64, 0, 0), ds |-> Segment(0, Zero64, 0, 0),
     es |-> Segment(0, Zero64, 0, 0), fs |-> Segment(0, Zero64, 0, 0),
     gs |-> Segment(0, Zero64, 0, 0), ss |-> Segment(0, Zero64, 0, 0),
     tr |-> Segment(0, Zero64, 0, 0), ldtr |-> Segment(0, Zero64, 0, 0),
     cr0 |-> Zero64, cr4 |-> Zero64, xcr0 |-> Zero64, rflags |-> Zero64,
     rip |-> Zero64, sev_features |-> Zero64, efer |-> Zero64, pat |-> Zero64,
     dr6 |-> Zero64, dr7 |-> Zero64]

\* reset_addr as u64 & 0xffff
vmsa_rip(reset_addr) == AndLimbs(Cast(reset_addr, 4), <<65535, 0, 0, 0>>)

\* The assignments shared by construct_ap_vmsa and construct_bsp_vmsa.
vmsa_state(reset_addr) ==
    [SevVmsa_zeroed EXCEPT
       !.cs = Segment(61440, AndLimbs(Cast(reset_addr, 4), <<0, 65535, 0, 0>>), 65535, 155),
       !.ds = Segment(0, Zero64, 65535, 147),
       !.es = Segment(0, Zero64, 65535, 147),
       !.fs = Segment(0, Zero64, 65535, 147),
       !.gs = Segment(0, Zero64, 65535, 147),
       !.ss = Segment(0, Zero64, 65535, 147),
       !.cr0 = <<16, 24576, 0, 0>>,
       !.xcr0 = <<1, 0, 0, 0>>,
       !.rip = vmsa_rip(reset_addr)]

SnpVpContext(gpa, compatibility_mask, vp_index, vmsa) ==
    [kind |-> "SnpVpContext", gpa |-> gpa, compatibility_mask |-> compatibility_mask,
     vp_index |-> vp_index, vmsa |-> vmsa]

\* vmsa.rs declares construct_ap_vmsa(gpa_start, compatibility_mask,
\* reset_addr, vp_index) and construct_bsp_vmsa(gpa_start, compatibility_mask);
\* igvm_builder.rs also passes the platform.  No statement of vmsa.rs reads a
\* platform, so the argument has no effect on the state built.
construct_ap_vmsa(gpa_start, compatibility_mask, p, reset_addr, vp_index) ==
    SnpVpContext(gpa_start, compatibility_mask, vp_index, vmsa_state(reset_addr))

\* let reset_addr = 0xfffffff0u32
construct_bsp_vmsa(gpa_start, compatibility_mask, p) ==
    SnpVpContext(gpa_start, compatibility_mask, 0, vmsa_state(<<65520, 65535>>))

----------------------------------------------------------------------------
(* igvm_builder.rs                                                         *)

\* 0xFFFFFFFFF000
VMSA_GPA == <<61440, 65535, 65535, 0>>

ap_range_inclusive(n) ==
    \* the range of application processors runs to n inclusive
    [k \in 1..n |-> k]

\* for vp in 1..self.options.cpucount
ap_range(n) == [k \in 1..(n - 1) |-> k]

needs_vmsa(p) == p \in {"SevEs", "SevSnp"}

\* IgvmBuilder::build_directives (with build_initialization before it and
\* build_platforms after it, which touch no directive).
build_directives ==
    /\ pc = "parsed"
    /\ UNCHANGED <<overflow_checks, platform, cpucount, data, current_offset,
                   ovmf_table, table, rt, meta, fw_info, fw_directives,
                   pre_reorder, result>>
    /\ LET vps == ap_range(cpucount)
           vmsas == IF needs_vmsa(platform)
                    THEN <<construct_bsp_vmsa(VMSA_GPA, COMPATIBILITY_MASK, platform)>>
                         \o [k \in 1..Len(vps) |->
                               construct_ap_vmsa(VMSA_GPA, COMPATIBILITY_MASK, platform,
                                                 fw_info.reset_addr, vps[k])]
                    ELSE <<>>
       IN directives' = directives \o fw_directives \o vmsas
    /\ pc' = "built"

\* IgvmBuilder::filter_pages
filter_pages(directive) ==
    directive.kind = "PageData" \/ directive.kind = "SnpVpContext"

partition_pages_first(ds) ==
    \* the two halves are appended in the wrong order
    SelectSeq(ds, filter_pages) \o SelectSeq(ds, LAMBDA x: ~filter_pages(x))

\* partition(Self::filter_pages), then others followed by pages
partition_reorder(ds) ==
    LET pages == SelectSeq(ds, filter_pages)
        others == SelectSeq(ds, LAMBDA x: ~filter_pages(x))
    IN others \o pages

\* IgvmBuilder::build after build_directives: the reorder pass.
reorder ==
    /\ pc = "built"
    /\ UNCHANGED <<overflow_checks, platform, cpucount, data, current_offset,
                   ovmf_table, table, rt, meta, fw_info, fw_directives>>
    /\ pre_reorder' = directives
    /\ directives' = partition_reorder(directives)
    /\ pc' = "done"
    /\ result' = "Ok"

----------------------------------------------------------------------------
(* Firmware images.  An image is laid out as parse_ovmf reads it:          *)
(*   [padding][SEV metadata: 16-byte header, 12-byte descriptors]          *)
(*   [inner tables, the first one parsed last in memory]                   *)
(*   [footer length (2 bytes)][footer GUID (16 bytes)][32 trailing bytes]  *)
(* and each table is [payload][length (2 bytes)][GUID (16 bytes)].         *)

MaxRegions == 9     \* memory-region descriptors in one metadata table: 0..MaxRegions
MaxCpu == 3         \* cpucount: 0..MaxCpu
MaxJunk == 20       \* footer payloads of 1..MaxJunk bytes that hold no table
MaxPages == 2       \* image lengths around 1..MaxPages pages of 4096 bytes
MaxDirectives == 4  \* the reorder pass alone: lists of up to MaxDirectives directives

LE16(n) == <<n % 256, (n \div 256) % 256>>
LE32(v) == LE16(v[1]) \o LE16(v[2])

Fill(n, seed) == [k \in 1..n |-> (k * 7 + seed) % 256]

OTHER_GUID ==
    <<17, 34, 51, 68, 85, 102, 119, 136, 153, 170, 187, 204, 221, 238, 255, 1>>

RECURSIVE Flatten(_)
Flatten(ss) == IF ss = <<>> THEN <<>> ELSE Head(ss) \o Flatten(Tail(ss))

Desc(base, len, ty) == LE32(base) \o LE32(len) \o LE32(ToLimbs(ty, 2))

\* signature "ASEV", length, version 1, descriptor count, descriptors
MetaBlock(num_desc, descs) ==
    <<65, 83, 69, 86>> \o LE32(ToLimbs(16 + 12 * Len(descs), 2))
    \o LE32(ToLimbs(1, 2)) \o LE32(num_desc) \o Flatten(descs)

\* A table to render: its payload is a pointer to the metadata (is_ptr) cut
\* to Len(payload) bytes, or the payload bytes; L is its length field.
TableSpec(guid, is_ptr, payload, L) ==
    [guid |-> guid, is_ptr |-> is_ptr, payload |-> payload, L |-> L]

SevTable == TableSpec(OVMF_SEV_METADATA_GUID, TRUE, <<0, 0, 0, 0>>, 22)
InfoTable(addr) == TableSpec(SEV_INFO_BLOCK_GUID, FALSE, LE32(addr), 22)
OtherTable(n) == TableSpec(OTHER_GUID, FALSE, Fill(n, 3), n + 18)

RECURSIVE InnerSize(_)
InnerSize(inner) ==
    IF inner = <<>> THEN 0
    ELSE Len(Head(inner).payload) + 18 + InnerSize(Tail(inner))

RenderTable(t, ptr) ==
    (IF t.is_ptr THEN SubSeq(LE32(ptr), 1, Len(t.payload)) ELSE t.payload)
    \o LE16(t.L) \o to_bytes_le(t.guid)

RECURSIVE RenderInner(_, _)
\* `inner` is in parse order: its head lies just below the footer.
RenderInner(inner, ptr) ==
    IF inner = <<>> THEN <<>>
    ELSE RenderInner(Tail(inner), ptr) \o RenderTable(Head(inner), ptr)

\* A well-formed image: the pointer and the footer length are the true ones.
Scn(pad, meta_block, inner) ==
    [pad |-> pad, meta_block |-> meta_block, inner |-> inner,
     ptr |-> ToLimbs(Len(meta_block) + InnerSize(inner) + 18 + 32, 2),
     footer_L |-> InnerSize(inner) + 18,
     footer_guid |-> OVMF_TABLE_FOOTER_GUID]

Image(s) ==
    Fill(s.pad, 0) \o s.meta_block \o RenderInner(s.inner, s.ptr)
    \o LE16(s.footer_L) \o to_bytes_le(s.footer_guid) \o Fill(32, 9)

ScnLen(s) == s.pad + Len(s.meta_block) + InnerSize(s.inner) + 18 + 32

\* s padded to a total length of n bytes (n >= its unpadded length).
PadTo(s, n) == [s EXCEPT !.pad = n - ScnLen(s) + s.pad]

\* The k-th memory region of a metadata table.
RegionBase(k) == <<4096 * (k % 8), 128 + k>>
RegionSize(k) ==
    CASE k % 5 = 1 -> ToLimbs(8192, 2)
      [] k % 5 = 2 -> ToLimbs(1, 2)
      [] k % 5 = 3 -> ToLimbs(0, 2)
      [] k % 5 = 4 -> ToLimbs(4097, 2)
      [] OTHER -> ToLimbs(4096, 2)

\* A metadata table: a secrets page, k memory regions, then a CPUID page, a
\* descriptor of an unknown type and a calling-area page.
MetaWith(k) ==
    MetaBlock(ToLimbs(k + 4, 2),
              <<Desc(<<53248, 128>>, ToLimbs(4096, 2), SEV_META_DESC_TYPE_SECRETS)>>
              \o [j \in 1..k |-> Desc(RegionBase(j), RegionSize(j), SEV_META_DESC_TYPE_MEM)]
              \o <<Desc(<<57344, 128>>, ToLimbs(4096, 2), SEV_META_DESC_TYPE_CPUID),
                   Desc(<<4660, 22136>>, ToLimbs(16, 2), 7),
                   Desc(<<61440, 128>>, ToLimbs(4096, 2), SEV_META_DESC_TYPE_CAA)>>)

RESET_A == <<45060, 128>>
RESET_B == <<65520, 65535>>

Chains ==
    {<<SevTable>>,
     <<InfoTable(RESET_A), SevTable>>,
     <<SevTable, OtherTable(3), InfoTable(RESET_B)>>,
     <<SevTable, SevTable>>}

\* Well-formed chains over metadata tables of 0..MaxRegions memory regions.
RegionScenarios == {Scn(0, MetaWith(k), c) : k \in 0..MaxRegions, c \in Chains}

\* Well-formed images of about 1..MaxPages pages.
SizeScenarios ==
    {PadTo(Scn(0, MetaWith(2), <<InfoTable(RESET_A), SevTable>>), PAGE_SIZE_4K * q + d) :
        q \in 1..MaxPages, d \in {0 - 1, 0, 1}}

\* An inner table with an injected length field.
InjectedLengths == {0, 1, 17, 18, 19, 21, 22, 23, 40, 65535}
InjectedTables ==
    {TableSpec(g, g = OVMF_SEV_METADATA_GUID, Fill(n, 5), L) :
        g \in {OVMF_SEV_METADATA_GUID, SEV_INFO_BLOCK_GUID, OTHER_GUID},
        n \in {0, 2, 4}, L \in InjectedLengths}
InjectedScenarios ==
    {Scn(0, MetaWith(1), c) :
        c \in {<<x>> : x \in InjectedTables}
              \cup {<<OtherTable(2), x>> : x \in InjectedTables}}

\* A footer with an injected length field or another GUID.
GoodScenario == Scn(0, MetaWith(1), <<InfoTable(RESET_A), SevTable>>)
FooterScenarios ==
    {[GoodScenario EXCEPT !.footer_L = L] :
        L \in {0, 1, 17, 18, 19, GoodScenario.footer_L - 1, GoodScenario.footer_L + 1,
               ScnLen(GoodScenario) - 32, ScnLen(GoodScenario) - 31, 65535}}
    \cup {[GoodScenario EXCEPT !.footer_guid = g] : g \in {OTHER_GUID, SEV_INFO_BLOCK_GUID}}

\* A footer whose payload of n bytes holds no table.
JunkScenarios ==
    {[Scn(0, junk, <<>>) EXCEPT !.footer_L = 18 + Len(junk)] :
        junk \in {Fill(n, 1) : n \in 1..MaxJunk}
                 \cup {[k \in 1..n |-> 0] : n \in 1..MaxJunk}}

\* A metadata pointer or descriptor count that leads outside the image.
PointerScenarios ==
    {[GoodScenario EXCEPT !.ptr = v] :
        v \in {Zero32, ToLimbs(1, 2), ToLimbs(15, 2), ToLimbs(16, 2), ToLimbs(27, 2),
               ToLimbs(ScnLen(GoodScenario) + 1, 2), <<0, 32768>>, <<65535, 65535>>}}
    \cup {Scn(0, MetaBlock(n, <<Desc(RegionBase(1), RegionSize(1), SEV_META_DESC_TYPE_MEM)>>),
              <<SevTable>>) :
            n \in {ToLimbs(2, 2), <<0, 1>>, <<65535, 65535>>}}

\* Memory regions that end at, or run past, the top of the 32-bit space.
TopScenarios ==
    {Scn(0, MetaBlock(ToLimbs(1, 2), <<Desc(b, ToLimbs(8192, 2), SEV_META_DESC_TYPE_MEM)>>),
         <<SevTable>>) :
        b \in {<<57344, 65535>>, <<61440, 65535>>}}

Scenarios ==
    RegionScenarios \cup SizeScenarios \cup InjectedScenarios \cup FooterScenarios
    \cup JunkScenarios \cup PointerScenarios \cup TopScenarios

\* Files too short to hold a footer.
ShortImages == {Fill(n, 5) : n \in {0, 31, 32, 49, 50}}

Images == {Image(s) : s \in Scenarios} \cup ShortImages

Platforms == {"Sev", "SevEs", "SevSnp", "Native"}

----------------------------------------------------------------------------
(* One run of the tool: IgvmBuilder::new() then build().                   *)

Init ==
    /\ overflow_checks \in BOOLEAN
    /\ platform \in Platforms
    /\ cpucount \in 0..MaxCpu
    /\ data \in Images
    /\ pc = "parse_ovmf"
    /\ result = "running"
    /\ current_offset = 0
    /\ ovmf_table = NoTable
    /\ table = NoTable
    /\ rt = NoRt
    /\ meta = NoMeta
    /\ fw_info = OvmfFwInfo_default
    /\ fw_directives = <<>>
    /\ directives = <<>>
    /\ pre_reorder = <<>>

Next ==
    \/ parse_ovmf
    \/ parse_inner_table
    \/ parse_sev_metadata
    \/ OvmfFirmware_parse
    \/ build_directives
    \/ reorder

Spec == Init /\ [][Next]_vars

----------------------------------------------------------------------------
(* The reorder pass on its own, on directive lists that also hold          *)
(* directives of other kinds (IgvmDirectiveHeader has more variants than   *)
(* the two this tool emits).                                               *)

DirectiveUniverse ==
    {PageData(Zero64, COMPATIBILITY_MASK, "NORMAL", <<1, 2>>),
     PageData(<<4096, 0, 0, 0>>, COMPATIBILITY_MASK, "SECRETS", <<>>),
     SnpVpContext(VMSA_GPA, COMPATIBILITY_MASK, 0, vmsa_state(RESET_B)),
     [kind |-> "ParameterArea", number_of_bytes |-> 4096, parameter_area_index |-> 0],
     [kind |-> "RequiredMemory", gpa |-> Zero64, compatibility_mask |-> COMPATIBILITY_MASK,
      number_of_bytes |-> 4096]}

InitReorder ==
    /\ directives \in UNION {[1..n -> DirectiveUniverse] : n \in 0..MaxDirectives}
    /\ pc = "built"
    /\ overflow_checks = TRUE
    /\ platform = "Native"
    /\ cpucount = 1
    /\ data = <<>>
    /\ result = "running"
    /\ current_offset = 0
    /\ ovmf_table = NoTable
    /\ table = NoTable
    /\ rt = NoRt
    /\ meta = NoMeta
    /\ fw_info = OvmfFwInfo_default
    /\ fw_directives = <<>>
    /\ pre_reorder = <<>>

SpecReorder == InitReorder /\ [][reorder]_vars

----------------------------------------------------------------------------
(* read_table on its own: any cursor into a synthetic buffer               *)
(*   [pre bytes][payload][length field][GUID][post bytes].                 *)

MaxPayload == 3   \* payloads of 0..MaxPayload bytes
MaxPre == 2       \* 0..MaxPre bytes before the payload

SyntheticBuffers ==
    UNION {{Fill(pre, 2) \o Fill(n, 4) \o LE16(L) \o to_bytes_le(g) \o Fill(post, 6) :
              L \in {0, 1, 17, 18, 19, 20, n + 18, pre + n + 18, pre + n + 19, 65535},
              g \in {OVMF_TABLE_FOOTER_GUID, OTHER_GUID}, post \in {0, 3}} :
           pre \in 0..MaxPre, n \in 0..MaxPayload}

InitReadTable ==
    /\ data \in SyntheticBuffers
    /\ current_offset \in 0..(MaxPre + MaxPayload + 18 + 4)
    /\ overflow_checks \in BOOLEAN
    /\ pc = "read_table"
    /\ platform = "Native"
    /\ cpucount = 1
    /\ result = "running"
    /\ ovmf_table = NoTable
    /\ table = NoTable
    /\ rt = NoRt
    /\ meta = NoMeta
    /\ fw_info = OvmfFwInfo_default
    /\ fw_directives = <<>>
    /\ directives = <<>>
    /\ pre_reorder = <<>>

\* One call read_table(current_offset, data).
read_table_call ==
    /\ pc = "read_table"
    /\ rt' = RtRecord(current_offset, read_table(current_offset, data))
    /\ pc' = "returned"
    /\ UNCHANGED <<overflow_checks, platform, cpucount, data, result, current_offset,
                   ovmf_table, table, meta, fw_info, fw_directives, directives,
                   pre_reorder>>

SpecReadTable == InitReadTable /\ [][read_table_call]_vars

----------------------------------------------------------------------------
(* Properties.                                                             *)

\* 2^32 - m (1 <= m < 2^31) as a value of `limbs` limbs.
TopMinus(m, limbs) ==
    [k \in 1..limbs |->
        IF k = 1 THEN (LIMB - (m % LIMB)) % LIMB
        ELSE IF k = 2 THEN LIMB - (m \div LIMB) - (IF m % LIMB = 0 THEN 0 ELSE 1)
        ELSE 0]

Parsed == pc \in {"parsed", "built", "done"}

CeilPages(n) == (n + PAGE_SIZE_4K - 1) \div PAGE_SIZE_4K

\* C1: when an image of L bytes parses, start = 2^32 - L and size = L (so
\* start + size = 2^32), and the firmware is emitted as exactly
\* ceil(L / 4096) NORMAL page directives, the k-th (from 0) at address
\* start + 4096 k holding bytes [4096 k, min(4096 (k + 1), L)) of the image;
\* the directives after them carry no bytes.
C1_FirmwarePages ==
    Parsed =>
      LET L == Len(data)
          n == CeilPages(L)
      IN /\ fw_info.start = TopMinus(L, 2)
         /\ fw_info.size = ToLimbs(L, 2)
         /\ AddLimbs(fw_info.start, fw_info.size) = [val |-> Zero32, overflow |-> TRUE]
         /\ Len(fw_directives) >= n
         /\ \A k \in 0..(n - 1) :
              LET d == fw_directives[k + 1] IN
              /\ d.kind = "PageData"
              /\ d.data_type = "NORMAL"
              /\ d.gpa = TopMinus(L - PAGE_SIZE_4K * k, 4)
              /\ d.data = SubSeq(data, PAGE_SIZE_4K * k + 1, Min(PAGE_SIZE_4K * (k + 1), L))
              /\ d.data # <<>>
         /\ \A j \in (n + 1)..Len(fw_directives) : fw_directives[j].data = <<>>

\* C1 witness: an image of more than two pages whose last chunk is short.
C1_Witness ==
    /\ pc = "parsed"
    /\ Len(data) > 2 * PAGE_SIZE_4K
    /\ Len(data) % PAGE_SIZE_4K # 0
    /\ Len(fw_directives) >= 3

\* The placeholder directives the claim C2 describes, for firmware info fw.
ExpectedRegionPages(pv_mem) ==
    [j \in 1..CeilPages(ToInt(pv_mem.size)) |->
        PageData(AddLimbs(Cast(pv_mem.base, 4), ToLimbs(PAGE_SIZE_4K * (j - 1), 4)).val,
                 COMPATIBILITY_MASK, "NORMAL", <<>>)]

ExpectedPlaceholders(fw, p) ==
    IF p = "SevSnp"
    THEN <<PageData(Cast(fw.secrets_page, 4), COMPATIBILITY_MASK, "SECRETS", <<>>),
           PageData(Cast(fw.caa_page, 4), COMPATIBILITY_MASK, "NORMAL", <<>>),
           PageData(Cast(fw.cpuid_page, 4), COMPATIBILITY_MASK, "CPUID_DATA", <<>>)>>
         \o Flatten([i \in 1..fw.prevalidated_count |->
                        ExpectedRegionPages(fw.prevalidated[i])])
    ELSE <<>>

\* C2: what parse emits after the firmware pages is, for SevSnp, a SECRETS
\* directive at the secrets page, a NORMAL one at the calling area, a
\* CPUID_DATA one at the CPUID page, then for each recorded region in order
\* ceil(size / 4096) empty NORMAL directives at base, base + 4096, ...; and
\* nothing for any other platform.
C2_Placeholders ==
    Parsed =>
      SubSeq(fw_directives, CeilPages(Len(data)) + 1, Len(fw_directives))
        = ExpectedPlaceholders(fw_info, platform)

Contexts == SelectSeq(directives, LAMBDA d : d.kind = "SnpVpContext")

Max(a, b) == IF a > b THEN a ELSE b

ContextsAre(n) ==
    /\ Len(Contexts) = n
    /\ \A k \in 1..Len(Contexts) :
         /\ Contexts[k].vp_index = k - 1
         /\ Contexts[k].gpa = <<61440, 65535, 65535, 0>>
    /\ directives = fw_directives \o Contexts

\* C3 as stated: for SevEs and SevSnp and every cpucount N, build_directives
\* appends exactly N processor contexts, indices 0..N-1, all at
\* 0xFFFFFFFFF000.
C3_ExactlyN ==
    (pc = "built" /\ needs_vmsa(platform)) => ContextsAre(cpucount)

\* C3 amended: for SevEs and SevSnp, build_directives appends exactly
\* max(N, 1) processor contexts (the boot processor's is always appended),
\* with indices 0, 1, ..., all at 0xFFFFFFFFF000, the first being the boot
\* processor's with index 0.
C3_AtLeastBoot ==
    (pc = "built" /\ needs_vmsa(platform)) => ContextsAre(Max(cpucount, 1))

\* C3 witness: three processors requested on SEV-SNP.
C3_Witness ==
    /\ pc = "built"
    /\ platform = "SevSnp"
    /\ cpucount = 3
    /\ Len(Contexts) = 3

IsPageOrContext(d) == d.kind \in {"PageData", "SnpVpContext"}

Count(x, ds) == Cardinality({i \in 1..Len(ds) : ds[i] = x})

\* C4: after the reorder pass every directive that is neither page data
\* nor a processor context precedes every one that is; the page/context
\* directives keep their relative order, and so do the others; and the list
\* holds exactly the directives it held before.
C4_StablePartition ==
    pc = "done" =>
      /\ \A i, j \in 1..Len(directives) :
           i < j => ~(IsPageOrContext(directives[i]) /\ ~IsPageOrContext(directives[j]))
      /\ SelectSeq(directives, IsPageOrContext) = SelectSeq(pre_reorder, IsPageOrContext)
      /\ SelectSeq(directives, LAMBDA d : ~IsPageOrContext(d))
           = SelectSeq(pre_reorder, LAMBDA d : ~IsPageOrContext(d))
      /\ Len(directives) = Len(pre_reorder)
      /\ \A i \in 1..Len(pre_reorder) :
           Count(pre_reorder[i], directives) = Count(pre_reorder[i], pre_reorder)

\* C4 witness: a list in which a page preceded another directive was
\* reordered.
C4_Witness ==
    /\ pc = "done"
    /\ directives # pre_reorder
    /\ \E i, j \in 1..Len(pre_reorder) :
         i < j /\ IsPageOrContext(pre_reorder[i]) /\ ~IsPageOrContext(pre_reorder[j])

\* The u32 stored little-endian at offset off of the image.
U32At(off) ==
    <<data[off + 1] + 256 * data[off + 2], data[off + 3] + 256 * data[off + 4]>>

\* The descriptor parse_sev_metadata is about to read, when it lies in the image.
DescOffset == meta.offset + 16 + 12 * meta.i
DescPending ==
    /\ pc = "desc"
    /\ LessLimbs(ToLimbs(meta.i, 2), meta.num_desc, 2)
    /\ 0 <= DescOffset
    /\ DescOffset + 12 <= Len(data)
MemDescPending == DescPending /\ U32At(DescOffset + 8) = <<1, 0>>

\* C5: the recorded region count never exceeds 8; a recorded region is
\* never altered; each memory-region descriptor read while fewer than 8 are
\* recorded is appended with its (base, size); and the memory-region
\* descriptor read when 8 are recorded fails the parse with the
\* too-many-regions error, leaving the 8 regions and the count as they were.
C5_RegionsBounded ==
    /\ [](fw_info.prevalidated_count <= 8)
    /\ [][/\ fw_info'.prevalidated_count >= fw_info.prevalidated_count
          /\ \A k \in 1..fw_info.prevalidated_count :
               fw_info'.prevalidated[k] = fw_info.prevalidated[k]
          /\ (MemDescPending /\ fw_info.prevalidated_count < 8) =>
               /\ fw_info'.prevalidated_count = fw_info.prevalidated_count + 1
               /\ fw_info'.prevalidated[fw_info.prevalidated_count + 1]
                    = [base |-> U32At(DescOffset), size |-> U32At(DescOffset + 4)]
          /\ (MemDescPending /\ fw_info.prevalidated_count = 8) =>
               /\ pc' = "failed"
               /\ result' = "OVMF metadata defines too many memory regions"
               /\ fw_info' = fw_info
          /\ ~MemDescPending =>
               fw_info'.prevalidated_count = fw_info.prevalidated_count]_vars

\* C5 witness: a 9th memory region was refused with 8 regions recorded.
C5_Witness ==
    /\ pc = "failed"
    /\ result = "OVMF metadata defines too many memory regions"
    /\ fw_info.prevalidated_count = 8
    /\ fw_info.prevalidated[8].base # Zero32

\* The length field read_table reads for cursor c (18 <= c <= Len(data)).
LengthFieldAt(c) == data[c - 17] + 256 * data[c - 16]

\* C6: a read_table call of the walk fails with the malformed-table error
\* when its cursor is below 18 and when the length field it reads exceeds
\* the cursor, and it never reads a byte outside the image.
C6_ReadTableSafe ==
    rt.called =>
      /\ rt.cursor < 18 => (rt.kind = "err" /\ rt.msg = "Invalid metadata table in OVMF firmware")
      /\ (18 <= rt.cursor /\ rt.cursor <= Len(data) /\ LengthFieldAt(rt.cursor) > rt.cursor)
           => (rt.kind = "err" /\ rt.msg = "Invalid metadata table in OVMF firmware")
      /\ rt.reads \subseteq 0..(Len(data) - 1)

\* C6 witness: the walk passed a cursor below 18 (an inner table's cursor).
C6_Witness ==
    /\ rt.called
    /\ rt.cursor < 18
    /\ rt.cursor > 0
    /\ ovmf_table # NoTable
    /\ pc = "failed"

ReadTableReturns(c) ==
    /\ rt.kind = "ok"
    /\ rt.info.uuid = SubSeq(data, c - 15, c)
    /\ rt.info.data_offset = c - LengthFieldAt(c)
    /\ rt.info.data_length = LengthFieldAt(c) - 18

\* C7 as stated: for every cursor c >= 18 at which a GUID ends and every
\* length field L <= c before it, read_table succeeds with that GUID,
\* payload offset c - L and payload length L - 18.
C7_AnyLength ==
    (pc = "returned" /\ 18 <= rt.cursor /\ rt.cursor <= Len(data)
       /\ LengthFieldAt(rt.cursor) <= rt.cursor)
      => ReadTableReturns(rt.cursor)

\* C7 amended: the same for every length field L with 18 <= L <= c (a
\* table is at least its 18 bytes of length field and GUID).
C7_LengthAtLeast18 ==
    (pc = "returned" /\ 18 <= rt.cursor /\ rt.cursor <= Len(data)
       /\ 18 <= LengthFieldAt(rt.cursor) /\ LengthFieldAt(rt.cursor) <= rt.cursor)
      => ReadTableReturns(rt.cursor)

\* C7 witness: a table with a 3-byte payload that starts after the
\* buffer's first byte was read back.
C7_Witness ==
    /\ pc = "returned"
    /\ rt.kind = "ok"
    /\ rt.info.data_length = 3
    /\ rt.info.data_offset > 0
    /\ rt.info.data_offset + rt.info.data_length + 18 = rt.cursor

\* The reset address a processor context is built from.
ResetOf(d) == IF d.vp_index = 0 THEN <<65520, 65535>> ELSE fw_info.reset_addr

DataSegment == [selector |-> 0, base |-> Zero64, limit |-> 65535, attrib |-> 147]

\* C8: every processor state built has CS = (0xF000, reset_addr &
\* 0xFFFF0000, 0xFFFF, 0x9B), DS/ES/FS/GS/SS = (0, 0, 0xFFFF, 0x93), CR0 =
\* 0x10 or 0x60000010, CR4 = 0x40, XCR0 = 1, RFLAGS = 2, RIP = reset_addr &
\* 0xFFFF, and on SevSnp a feature bit set in sev_features.
C8_ResetState ==
    pc = "built" =>
      \A k \in 1..Len(Contexts) :
        LET v == Contexts[k].vmsa
            r == ResetOf(Contexts[k])
        IN /\ v.cs = [selector |-> 61440, base |-> <<0, r[2], 0, 0>>,
                      limit |-> 65535, attrib |-> 155]
           /\ v.ds = DataSegment /\ v.es = DataSegment /\ v.fs = DataSegment
           /\ v.gs = DataSegment /\ v.ss = DataSegment
           /\ v.cr0 \in {<<16, 0, 0, 0>>, <<16, 24576, 0, 0>>}
           /\ v.cr4 = <<64, 0, 0, 0>>
           /\ v.xcr0 = <<1, 0, 0, 0>>
           /\ v.rflags = <<2, 0, 0, 0>>
           /\ v.rip = <<r[1], 0, 0, 0>>
           /\ platform = "SevSnp" => v.sev_features # Zero64

\* An inner table was read and handed to the interpreter of its GUID.
InnerRead(guid) ==
    /\ rt.called
    /\ rt.kind = "ok"
    /\ ovmf_table # NoTable
    /\ rt.info.uuid = to_bytes_le(guid)

FailedWithErr == pc = "failed" /\ result \notin {"running", "Ok", "panic"}

PointerReadable ==
    0 <= rt.info.data_offset /\ rt.info.data_offset + 4 <= Len(data)

\* C9: an interpreter that is given fewer bytes than it needs ends in a
\* parse error: an info block or a metadata pointer payload shorter than 4
\* bytes, a pointer larger than the file length, a 16-byte header or a
\* 12-byte descriptor that extends past the end of the image.
C9_ShortInputIsError ==
    /\ (InnerRead(SEV_INFO_BLOCK_GUID) /\ rt.info.data_length < 4) => FailedWithErr
    /\ (InnerRead(OVMF_SEV_METADATA_GUID) /\ rt.info.data_length < 4) => FailedWithErr
    /\ (InnerRead(OVMF_SEV_METADATA_GUID) /\ PointerReadable) =>
         LET ptr == U32At(rt.info.data_offset) IN
         /\ (~Small(ptr) \/ ToInt(ptr) > Len(data)) => FailedWithErr
         /\ (Small(ptr) /\ ToInt(ptr) < 16) => FailedWithErr
    /\ (InnerRead(OVMF_SEV_METADATA_GUID) /\ pc = "failed" /\ meta # NoMeta
          /\ LessLimbs(ToLimbs(meta.i, 2), meta.num_desc, 2)
          /\ DescOffset + 12 > Len(data))
         => FailedWithErr

\* C10: in every iteration of parse_ovmf's loop that does not fail, the
\* cursor parse_inner_table returns is strictly smaller than the cursor it
\* was passed.
C10_CursorDecreases ==
    [][(pc \in {"walk", "desc"} /\ pc' = "walk") => current_offset' < rt'.cursor]_vars

\* The end of the footer table's payload, where parse_ovmf starts its walk.
FooterEnd == ovmf_table.data_offset + ovmf_table.data_length

\* parse_ovmf's loop condition is false: parse_ovmf returns Ok(()).
WalkReturnsOk == pc = "walk" /\ ~(current_offset > ovmf_table.data_offset)

\* C11: on every image on which parse_ovmf succeeds, the walk starts with the
\* cursor at footer.payload_offset + footer.payload_length, every inner table
\* it parses lies wholly inside the footer's payload range, and the walk ends
\* with the cursor exactly at footer.payload_offset, never below it.
\* (Between two iterations the loop either goes on, and then the table just
\* parsed starts above the footer's payload start, or it returns Ok: a table
\* outside the range is therefore always one of a parse that succeeds.)
C11_WalkWithinFooter ==
    pc = "walk" =>
        /\ table = NoTable => current_offset = FooterEnd
        /\ table # NoTable =>
              /\ ovmf_table.data_offset <= table.data_offset
              /\ rt.cursor <= FooterEnd
        /\ WalkReturnsOk => current_offset = ovmf_table.data_offset

====
